---- MODULE Spec2Model ----
(***************************************************************************)
(* Signal pipeline of the day-trading dashboards:                          *)
(*   day_trade_streamlit_app.py                  ("base"   rule)           *)
(*   day_trader_dashboard_with_sr_and_news.py    ("srnews" rule)           *)
(*   day_trader_dashboard_custom_timeframes.py   ("custom" rule, backtest) *)
(*                                                                         *)
(* A frame (df) is a sequence of rows; row k of the code (0-based,         *)
(* df.iloc[k]) is df[k+1] here.  Every row carries t, its timestamp        *)
(* (df.index), which survives dropna.  Indicator values come from the ta   *)
(* library; the model draws them as inputs and keeps only what the scripts *)
(* themselves do with them.                                                *)
(***************************************************************************)
EXTENDS Integers, Sequences, FiniteSets, TLC

VARIABLES pc, script, df, sensitivity, levels, near_support, near_resistance,
          i, in_trade, entry_price, entry_time, trades, exit_bars, flat_at_bar,
          summary

vars == <<pc, script, df, sensitivity, levels, near_support, near_resistance,
          i, in_trade, entry_price, entry_time, trades, exit_bars, flat_at_bar,
          summary>>

\* everything the backtest section assigns
backtest_vars == <<i, in_trade, entry_price, entry_time, trades, exit_bars, flat_at_bar,
                   summary>>

(* ------------------------------ bounds -------------------------------- *)

\* leading rows whose indicators are still undefined and which dropna removes
\* (33 with the ta library's default MACD windows: a 26-bar slow EMA, then a
\* 9-bar EMA of the MACD line); kept short so that short series survive it
Warmup == 4

\* longest cleaned series walked by the backtest
MaxWalk == 6

\* longest downloaded series run through a whole script
MaxRaw == 8

\* longest cleaned series handed to the classifiers
MaxRows == 2

\* longest series handed to detect_levels on its own
MaxBars == 8

\* price range of the V- and Lambda-shaped series
MaxPrice == 5

(* ------------------------------ helpers ------------------------------- *)

\* df.iloc[k] / data[col][k] with a 0-based position k
At(data, k) == data[k + 1]

Min(S) == CHOOSE m \in S : \A x \in S : m <= x

Max(S) == CHOOSE m \in S : \A x \in S : m >= x

\* data["Low"][a:b].min() for a slice that lies inside the frame
LowMin(data, a, b) == Min({At(data, j).Low : j \in a..(b - 1)})

\* data["High"][a:b].max() for a slice that lies inside the frame
HighMax(data, a, b) == Max({At(data, j).High : j \in a..(b - 1)})

(* --------------------------- detect_levels ---------------------------- *)

DefaultSensitivity == 3

is_support_nonstrict(data, k, s) ==
    /\ At(data, k).Low <= LowMin(data, k - s, k)
    /\ At(data, k).Low <= LowMin(data, k + 1, k + s + 1)

is_support_leftonly(data, k, s) ==
    At(data, k).Low < LowMin(data, k - s, k)

\* the condition of the first if of the loop body
is_support(data, k, s) ==
    /\ At(data, k).Low < LowMin(data, k - s, k)
    /\ At(data, k).Low < LowMin(data, k + 1, k + s + 1)

\* the condition of the second if of the loop body
is_resistance(data, k, s) ==
    /\ At(data, k).High > HighMax(data, k - s, k)
    /\ At(data, k).High > HighMax(data, k + 1, k + s + 1)

support_level(data, k)    == [kind |-> "support",    index |-> At(data, k).t, price |-> At(data, k).Low]

resistance_level(data, k) == [kind |-> "resistance", index |-> At(data, k).t, price |-> At(data, k).High]

\* the for loop from position k on: range(sensitivity, len(data) - sensitivity)
RECURSIVE levels_from(_, _, _)
levels_from(data, s, k) ==
    IF k >= Len(data) - s THEN <<>>
    ELSE (IF is_support(data, k, s) THEN <<support_level(data, k)>> ELSE <<>>)
         \o (IF is_resistance(data, k, s) THEN <<resistance_level(data, k)>> ELSE <<>>)
         \o levels_from(data, s, k + 1)

detect_levels(data, s) == levels_from(data, s, s)

(* ----------------------- indicators and dropna ------------------------ *)

Scripts == {"base", "srnews", "custom"}

\* the two scripts with the VWAP / volume / support-resistance rule
Extended == {"srnews", "custom"}

\* indicator columns of one complete row of the base script
BaseIndicators ==
    [RSI : {29, 30, 70, 71}, MACD : {0, 1, 2}, MACD_Signal : {1}, EMA9 : {0, 2}, EMA21 : {1}]

\* indicator columns of one complete row of the extended scripts
ExtIndicators ==
    [MACD : {0, 1, 2}, MACD_Signal : {1}, EMA9 : {0, 2}, EMA21 : {1}, VWAP : {101},
     Volume_Spike : BOOLEAN]

\* rising, falling and undecided rows, as drawn for a whole run of a script
BaseTrends ==
    {[RSI |-> 29, MACD |-> 2, MACD_Signal |-> 1, EMA9 |-> 2, EMA21 |-> 1],
     [RSI |-> 71, MACD |-> 0, MACD_Signal |-> 1, EMA9 |-> 0, EMA21 |-> 1],
     [RSI |-> 30, MACD |-> 2, MACD_Signal |-> 1, EMA9 |-> 2, EMA21 |-> 1]}

ExtTrends ==
    {[MACD |-> 2, MACD_Signal |-> 1, EMA9 |-> 2, EMA21 |-> 1, VWAP |-> 100, Volume_Spike |-> TRUE],
     [MACD |-> 0, MACD_Signal |-> 1, EMA9 |-> 0, EMA21 |-> 1, VWAP |-> 103, Volume_Spike |-> TRUE],
     [MACD |-> 2, MACD_Signal |-> 1, EMA9 |-> 2, EMA21 |-> 1, VWAP |-> 100, Volume_Spike |-> FALSE]}

Trends(sc) == IF sc = "base" THEN BaseTrends ELSE ExtTrends

\* the indicator columns are added to the frame: ind[k] for the rows past
\* the warm-up, NaN (nan = TRUE, no value) for the rows inside it
with_indicators(data, ind) ==
    [k \in 1..Len(data) |->
        IF k <= Warmup THEN ("nan" :> TRUE) @@ data[k]
        ELSE ("nan" :> FALSE) @@ ind[k] @@ data[k]]

IsComplete(row) == ~row.nan

\* df.dropna(inplace=True) after the indicator columns were added
dropna(data) == SelectSeq(data, IsComplete)

(* --------------------------- classification --------------------------- *)

Abs(x) == IF x < 0 THEN 0 - x ELSE x

\* df["Signal"] = ""
blank_signal(data) == [k \in 1..Len(data) |-> ("Signal" :> "") @@ data[k]]

\* [price for kind, _, price in levels if kind == kd]
level_prices(lvls, kd) ==
    LET IsKind(l) == l.kind = kd
        sel == SelectSeq(lvls, IsKind)
    IN [n \in 1..Len(sel) |-> sel[n].price]

\* df["Close"].iloc[-1]
last_price(data) == data[Len(data)].Close

\* any(abs(p - lvl) / p < 0.01 for lvl in prices), for a price p > 0
near(p, prices) == \E n \in 1..Len(prices) : Abs(p - prices[n]) * 100 < p

\* df.loc[mask, "Signal"] = label
\* (mask is the boolean column, one entry per row)
assign(data, mask, label) ==
    [k \in 1..Len(data) |-> IF mask[k] THEN [data[k] EXCEPT !.Signal = label] ELSE data[k]]

buy_base_no_ema(row) == row.RSI < 30 /\ row.MACD > row.MACD_Signal

buy_base(row)  == row.RSI < 30 /\ row.MACD > row.MACD_Signal /\ row.EMA9 > row.EMA21

sell_base(row) == row.RSI > 70 /\ row.MACD < row.MACD_Signal /\ row.EMA9 < row.EMA21

\* the two df.loc assignments of the base script, BUY first
signals_base(data) ==
    LET buy  == [k \in 1..Len(data) |-> buy_base(data[k])]
        sell == [k \in 1..Len(data) |-> sell_base(data[k])]
    IN assign(assign(data, buy, "BUY"), sell, "SELL")

\* buy_condition / sell_condition of the extended scripts, without the
\* proximity flag
buy_condition(row) ==
    /\ row.MACD > row.MACD_Signal
    /\ row.EMA9 > row.EMA21
    /\ row.Close > row.VWAP
    /\ row.Volume_Spike

sell_condition(row) ==
    /\ row.MACD < row.MACD_Signal
    /\ row.EMA9 < row.EMA21
    /\ row.Close < row.VWAP
    /\ row.Volume_Spike

\* srnews: the proximity flag is the last conjunct of the condition itself
buy_condition_srnews(row, ns) ==
    /\ row.MACD > row.MACD_Signal
    /\ row.EMA9 > row.EMA21
    /\ row.Close > row.VWAP
    /\ row.Volume_Spike
    /\ ns

sell_condition_srnews(row, nr) ==
    /\ row.MACD < row.MACD_Signal
    /\ row.EMA9 < row.EMA21
    /\ row.Close < row.VWAP
    /\ row.Volume_Spike
    /\ nr

signals_srnews(data, ns, nr) ==
    LET buy  == [k \in 1..Len(data) |-> buy_condition_srnews(data[k], ns)]
        sell == [k \in 1..Len(data) |-> sell_condition_srnews(data[k], nr)]
    IN assign(assign(data, buy, "BUY"), sell, "SELL")

signals_custom_last_bar_only(data, ns, nr) ==
    LET buy  == [k \in 1..Len(data) |-> buy_condition(data[k]) /\ (k = Len(data) => ns)]
        sell == [k \in 1..Len(data) |-> sell_condition(data[k]) /\ (k = Len(data) => nr)]
    IN assign(assign(data, buy, "BUY"), sell, "SELL")

\* custom: the flag is and-ed to the condition inside df.loc
signals_custom(data, ns, nr) ==
    LET buy  == [k \in 1..Len(data) |-> buy_condition(data[k]) /\ ns]
        sell == [k \in 1..Len(data) |-> sell_condition(data[k]) /\ nr]
    IN assign(assign(data, buy, "BUY"), sell, "SELL")

(* ------------------------------ backtest ------------------------------ *)

sim == [in_trade |-> in_trade, entry_price |-> entry_price, entry_time |-> entry_time,
        trades |-> trades, exit_bars |-> exit_bars]

backtest_bar_naked_sell(st, data, k) ==
    IF At(data, k).Signal = "BUY" /\ ~st.in_trade
    THEN [st EXCEPT !.entry_price = At(data, k).Close,
                    !.entry_time = At(data, k).t,
                    !.in_trade = TRUE]
    ELSE IF At(data, k).Signal = "SELL"
    THEN [st EXCEPT !.trades = Append(st.trades,
                                 [EntryTime |-> st.entry_time, Entry |-> st.entry_price,
                                  Exit |-> At(data, k).Close,
                                  PnL |-> At(data, k).Close - st.entry_price]),
                    !.exit_bars = Append(st.exit_bars, k),
                    !.in_trade = FALSE]
    ELSE st

backtest_bar_pyramiding(st, data, k) ==
    IF At(data, k).Signal = "BUY"
    THEN [st EXCEPT !.entry_price = At(data, k).Close,
                    !.entry_time = At(data, k).t,
                    !.in_trade = TRUE]
    ELSE IF st.in_trade /\ At(data, k).Signal = "SELL"
    THEN [st EXCEPT !.trades = Append(st.trades,
                                 [EntryTime |-> st.entry_time, Entry |-> st.entry_price,
                                  Exit |-> At(data, k).Close,
                                  PnL |-> At(data, k).Close - st.entry_price]),
                    !.exit_bars = Append(st.exit_bars, k),
                    !.in_trade = FALSE]
    ELSE st

\* the body of the backtest loop at position k; exit_bars remembers the
\* position at which each trade was appended
backtest_bar(st, data, k) ==
    IF At(data, k).Signal = "BUY" /\ ~st.in_trade
    THEN [st EXCEPT !.entry_price = At(data, k).Close,
                    !.entry_time = At(data, k).t,
                    !.in_trade = TRUE]
    ELSE IF st.in_trade /\ At(data, k).Signal = "SELL"
    THEN [st EXCEPT !.trades = Append(st.trades,
                                 [EntryTime |-> st.entry_time, Entry |-> st.entry_price,
                                  Exit |-> At(data, k).Close,
                                  PnL |-> At(data, k).Close - st.entry_price]),
                    !.exit_bars = Append(st.exit_bars, k),
                    !.in_trade = FALSE]
    ELSE st

wins_of(ts)   == Cardinality({n \in 1..Len(ts) : ts[n].PnL > 0})

losses_of(ts) == Cardinality({n \in 1..Len(ts) : ts[n].PnL <= 0})

\* first position the loop visits: for i in range(1, len(df))
WalkStart == 1

Unset == 0 - 1

\* the variables the backtest owns, before the backtest has started
BacktestIdle ==
    /\ i = 0
    /\ in_trade = FALSE
    /\ entry_price = 0
    /\ entry_time = Unset
    /\ trades = <<>>
    /\ exit_bars = <<>>
    /\ flat_at_bar = TRUE
    /\ summary = [wins |-> 0, losses |-> 0, text |-> "none"]

(* ------------------------------ actions ------------------------------- *)

\* the indicator columns are computed and added
Indicators ==
    /\ pc = "fetched"
    /\ \E ind \in [(Warmup + 1)..Len(df) -> Trends(script)] :
          df' = with_indicators(df, ind)
    /\ pc' = "indicators"
    /\ UNCHANGED <<script, sensitivity, levels, near_support, near_resistance, backtest_vars>>

\* levels = detect_levels(df)
DetectLevels ==
    /\ pc = "indicators"
    /\ script \in Extended
    /\ levels' = detect_levels(df, DefaultSensitivity)
    /\ pc' = "levels"
    /\ UNCHANGED <<script, df, sensitivity, near_support, near_resistance, backtest_vars>>

\* df.dropna(inplace=True)
DropNa ==
    /\ \/ pc = "indicators" /\ script = "base"
       \/ pc = "levels"
    /\ df' = dropna(df)
    /\ pc' = "cleaned"
    /\ UNCHANGED <<script, sensitivity, levels, near_support, near_resistance, backtest_vars>>

\* base script: the Signal column and its two assignments
ClassifyBase ==
    /\ pc = "cleaned"
    /\ script = "base"
    /\ df' = signals_base(blank_signal(df))
    /\ pc' = "classified"
    /\ UNCHANGED <<script, sensitivity, levels, near_support, near_resistance, backtest_vars>>

\* extended scripts: the Signal column, last_price and the two flags
NearFlags ==
    /\ pc = "cleaned"
    /\ script \in Extended
    /\ Len(df) > 0
    /\ df' = blank_signal(df)
    /\ near_support' = near(last_price(df), level_prices(levels, "support"))
    /\ near_resistance' = near(last_price(df), level_prices(levels, "resistance"))
    /\ pc' = "near"
    /\ UNCHANGED <<script, sensitivity, levels, backtest_vars>>

\* extended scripts: df["Close"].iloc[-1] on a frame without rows raises
\* IndexError, which nothing catches
LastPriceFails ==
    /\ pc = "cleaned"
    /\ script \in Extended
    /\ Len(df) = 0
    /\ pc' = "IndexError"
    /\ UNCHANGED <<script, df, sensitivity, levels, near_support, near_resistance, backtest_vars>>

ClassifySrNews ==
    /\ pc = "near"
    /\ script = "srnews"
    /\ df' = signals_srnews(df, near_support, near_resistance)
    /\ pc' = "classified"
    /\ UNCHANGED <<script, sensitivity, levels, near_support, near_resistance, backtest_vars>>

ClassifyCustom ==
    /\ pc = "near"
    /\ script = "custom"
    /\ df' = signals_custom(df, near_support, near_resistance)
    /\ pc' = "classified"
    /\ UNCHANGED <<script, sensitivity, levels, near_support, near_resistance, backtest_vars>>

\* trades = [], in_trade = False, entry_price = 0; entry_time is not bound
\* yet; the loop will start at position 1
BacktestBegin ==
    /\ pc = "classified"
    /\ script = "custom"
    /\ i' = WalkStart
    /\ in_trade' = FALSE
    /\ entry_price' = 0
    /\ trades' = <<>>
    /\ exit_bars' = <<>>
    /\ flat_at_bar' = TRUE
    /\ pc' = "walk"
    /\ UNCHANGED <<script, df, sensitivity, levels, near_support, near_resistance,
                   entry_time, summary>>

\* one iteration of the loop; flat_at_bar remembers whether the simulator was
\* FLAT when it came to the bar of this iteration
BacktestStep ==
    /\ pc = "walk"
    /\ i < Len(df)
    /\ LET st == backtest_bar(sim, df, i)
       IN /\ in_trade' = st.in_trade
          /\ entry_price' = st.entry_price
          /\ entry_time' = st.entry_time
          /\ trades' = st.trades
          /\ exit_bars' = st.exit_bars
    /\ flat_at_bar' = ~in_trade
    /\ i' = i + 1
    /\ UNCHANGED <<pc, script, df, sensitivity, levels, near_support, near_resistance, summary>>

\* the loop is over: backtest_df and the results block
BacktestSummary ==
    /\ pc = "walk"
    /\ i >= Len(df)
    /\ summary' = IF trades = <<>>
                  THEN [wins |-> 0, losses |-> 0, text |-> "No completed trades to backtest yet."]
                  ELSE [wins |-> wins_of(trades), losses |-> losses_of(trades),
                        text |-> "Backtest Results"]
    /\ pc' = "backtested"
    /\ UNCHANGED <<script, df, sensitivity, levels, near_support, near_resistance,
                   i, in_trade, entry_price, entry_time, trades, exit_bars, flat_at_bar>>

\* the script has come to its "Display Latest Signal" block
AtLatest ==
    \/ pc = "classified" /\ script \in {"base", "srnews"}
    \/ pc = "backtested"

\* latest = df.iloc[-1] and the lines written from it
ShowLatest ==
    /\ AtLatest
    /\ Len(df) > 0
    /\ pc' = "displayed"
    /\ UNCHANGED <<script, df, sensitivity, levels, near_support, near_resistance, backtest_vars>>

\* df.iloc[-1] on a frame without rows raises IndexError
LatestFails ==
    /\ AtLatest
    /\ Len(df) = 0
    /\ pc' = "IndexError"
    /\ UNCHANGED <<script, df, sensitivity, levels, near_support, near_resistance, backtest_vars>>

\* levels = detect_levels(df, sensitivity), called on its own
DetectLevelsCall ==
    /\ pc = "call"
    /\ levels' = detect_levels(df, sensitivity)
    /\ pc' = "detected"
    /\ UNCHANGED <<script, df, sensitivity, near_support, near_resistance, backtest_vars>>

(* ------------------------- the whole scripts -------------------------- *)

\* Low / High / Close of one downloaded bar
BarKinds == {[Low |-> 101, High |-> 101, Close |-> 101],
             [Low |-> 100, High |-> 102, Close |-> 102]}

RawFrame(f) ==
    [k \in 1..Len(f) |-> [t |-> k - 1, Low |-> f[k].Low, High |-> f[k].High, Close |-> f[k].Close]]

\* df is a download of at most MaxRaw bars
RawInput == \E n \in 0..MaxRaw : \E f \in [1..n -> BarKinds] : df = RawFrame(f)

\* after the download, the column flattening and the first dropna
Init ==
    /\ pc = "fetched"
    /\ script \in Scripts
    /\ RawInput
    /\ sensitivity = DefaultSensitivity
    /\ levels = <<>>
    /\ near_support = FALSE
    /\ near_resistance = FALSE
    /\ BacktestIdle

Next ==
    \/ Indicators
    \/ DetectLevels
    \/ DropNa
    \/ ClassifyBase
    \/ NearFlags
    \/ LastPriceFails
    \/ ClassifySrNews
    \/ ClassifyCustom
    \/ BacktestBegin
    \/ BacktestStep
    \/ BacktestSummary
    \/ ShowLatest
    \/ LatestFails

Spec == Init /\ [][Next]_vars

(* ----------------- detect_levels on enumerated series ----------------- *)

\* Low/High of one bar, Low <= High
BarShapes == {[Low |-> l, High |-> h] : l \in {1, 2}, h \in {2, 3}}

\* a frame with timestamps 0..n-1 from a sequence of Low/High pairs
Frame(f) == [k \in 1..Len(f) |-> [t |-> k - 1, Low |-> f[k].Low, High |-> f[k].High]]

\* df is any series of at most MaxBars bars
AnySeries == \E n \in 0..MaxBars : \E f \in [1..n -> BarShapes] : df = Frame(f)

RECURSIVE Asc(_)
Asc(S) == IF S = {} THEN <<>> ELSE LET m == Min(S) IN <<m>> \o Asc(S \ {m})

RECURSIVE Desc(_)
Desc(S) == IF S = {} THEN <<>> ELSE LET m == Max(S) IN <<m>> \o Desc(S \ {m})

\* strictly down to a single lowest value v, then strictly up
VValues(v, L, R) == Desc(L) \o <<v>> \o Asc(R)

\* df is a series whose Low follows a V, High one above it
VSeries ==
    \E v \in 1..MaxPrice : \E L, R \in SUBSET ((v + 1)..MaxPrice) :
       LET w == VValues(v, L, R)
       IN df = Frame([k \in 1..Len(w) |-> [Low |-> w[k], High |-> w[k] + 1]])

\* df is a series whose High follows the mirrored V (a Lambda), Low one below it
LambdaSeries ==
    \E v \in 1..MaxPrice : \E L, R \in SUBSET ((v + 1)..MaxPrice) :
       LET w == VValues(v, L, R)
       IN df = Frame([k \in 1..Len(w) |-> [Low |-> MaxPrice + 1 - w[k],
                                            High |-> MaxPrice + 2 - w[k]]])

InitLevels ==
    /\ pc = "call"
    /\ script = "custom"
    /\ (AnySeries \/ VSeries \/ LambdaSeries)
    /\ sensitivity \in 1..DefaultSensitivity
    /\ levels = <<>>
    /\ near_support = FALSE
    /\ near_resistance = FALSE
    /\ BacktestIdle

NextLevels == DetectLevelsCall

SpecLevels == InitLevels /\ [][NextLevels]_vars

(* ------------- the classifiers on enumerated cleaned frames ----------- *)

ClosePrices == {100, 102}

\* a cleaned frame: complete rows with the timestamps that follow the warm-up
CleanRows(f) == [k \in 1..Len(f) |-> ("nan" :> FALSE) @@ ("t" :> (Warmup + k - 1)) @@ f[k]]

\* df is a cleaned frame of the base script
BaseFrames ==
    \E n \in 1..MaxRows : \E f \in [1..n -> BaseIndicators] :
       df = CleanRows([k \in 1..n |-> ("Close" :> 101) @@ f[k]])

\* df is a cleaned frame of an extended script
ExtFrames ==
    \E n \in 1..MaxRows : \E f \in [1..n -> ExtIndicators], c \in [1..n -> ClosePrices] :
       df = CleanRows([k \in 1..n |-> ("Close" :> c[k]) @@ f[k]])

LevelPool == {[kind |-> "support", price |-> 100], [kind |-> "support", price |-> 101],
              [kind |-> "resistance", price |-> 101]}

\* up to two different levels of the pool, in either order
LevelLists ==
    {<<>>}
    \cup {<<[kind |-> a.kind, index |-> 0, price |-> a.price]>> : a \in LevelPool}
    \cup {<<[kind |-> q[1].kind, index |-> 0, price |-> q[1].price],
            [kind |-> q[2].kind, index |-> 1, price |-> q[2].price]>>
            : q \in {r \in LevelPool \X LevelPool : r[1] # r[2]}}

InitSignal ==
    /\ pc = "cleaned"
    /\ script \in Scripts
    /\ \/ script = "base" /\ BaseFrames /\ levels = <<>>
       \/ script \in Extended /\ ExtFrames /\ levels \in LevelLists
    /\ sensitivity = DefaultSensitivity
    /\ near_support = FALSE
    /\ near_resistance = FALSE
    /\ BacktestIdle

NextSignal == ClassifyBase \/ NearFlags \/ ClassifySrNews \/ ClassifyCustom

SpecSignal == InitSignal /\ [][NextSignal]_vars

(* ------------- the backtest on enumerated signal sequences ------------ *)

Labels == {"BUY", "SELL", ""}

\* df is a classified frame of at most MaxWalk bars
SignalFrames ==
    \E n \in 0..MaxWalk : \E f \in [1..n -> [Close : ClosePrices, Signal : Labels]] :
       df = CleanRows(f)

InitBacktest ==
    /\ pc = "classified"
    /\ script = "custom"
    /\ SignalFrames
    /\ sensitivity = DefaultSensitivity
    /\ levels = <<>>
    /\ near_support = FALSE
    /\ near_resistance = FALSE
    /\ BacktestIdle

NextBacktest == BacktestBegin \/ BacktestStep \/ BacktestSummary

SpecBacktest == InitBacktest /\ [][NextBacktest]_vars

(* ---- claims about detect_levels ---- *)

Lows(data)  == [k \in 0..(Len(data) - 1) |-> At(data, k).Low]
Highs(data) == [k \in 0..(Len(data) - 1) |-> At(data, k).High]

LevelsAt(kd, k) == {n \in 1..Len(levels) : levels[n].kind = kd /\ levels[n].index = k}

\* C5: detect_levels(data, s) returns a support Level at bar k exactly when
\* s <= k < len-s and Low[k] is strictly below each of the s Lows before and
\* the s Lows after it, a resistance Level exactly under the mirrored
\* condition on High, each at most once and priced at that Low / High; hence
\* no Level in the first or last s bars, both Levels for a bar meeting both
\* conditions, and the list ascends by bar index.
C5_DetectLevelsExact ==
    pc = "detected" =>
      LET n == Len(df)
          s == sensitivity
          interior(k) == s <= k /\ k < n - s
          around(k) == ((k - s)..(k - 1)) \cup ((k + 1)..(k + s))
      IN /\ \A k \in 0..(n - 1) :
              /\ (LevelsAt("support", k) # {})
                   <=> (interior(k) /\ \A j \in around(k) : Lows(df)[k] < Lows(df)[j])
              /\ (LevelsAt("resistance", k) # {})
                   <=> (interior(k) /\ \A j \in around(k) : Highs(df)[k] > Highs(df)[j])
              /\ Cardinality(LevelsAt("support", k)) <= 1
              /\ Cardinality(LevelsAt("resistance", k)) <= 1
         /\ \A m \in 1..Len(levels) :
              /\ levels[m].kind \in {"support", "resistance"}
              /\ levels[m].index \in 0..(n - 1)
              /\ levels[m].price = (IF levels[m].kind = "support"
                                    THEN Lows(df)[levels[m].index]
                                    ELSE Highs(df)[levels[m].index])
         /\ \A a, b \in 1..Len(levels) : a < b => levels[a].index <= levels[b].index

\* a bar that is both a support and a resistance, and a second level after it
C5_Witness ==
    /\ pc = "detected"
    /\ \E k \in 0..(Len(df) - 1) : LevelsAt("support", k) # {} /\ LevelsAt("resistance", k) # {}
    /\ Len(levels) >= 3
    /\ Len(df) > 2 * sensitivity + 1

\* the bar m of a genuine V: strictly down to m, strictly up after it
IsV(col, n, m) ==
    /\ 0 < m /\ m < n - 1
    /\ \A j \in 0..(m - 1) : col[j] > col[j + 1]
    /\ \A j \in m..(n - 2) : col[j] < col[j + 1]

IsLambda(col, n, m) ==
    /\ 0 < m /\ m < n - 1
    /\ \A j \in 0..(m - 1) : col[j] < col[j + 1]
    /\ \A j \in m..(n - 2) : col[j] > col[j + 1]

Supports    == {n \in 1..Len(levels) : levels[n].kind = "support"}
Resistances == {n \in 1..Len(levels) : levels[n].kind = "resistance"}

\* C6 as claimed: every V-shaped Low series gets, with sensitivity 3, exactly
\* one support Level, at the minimum bar, and every Lambda-shaped High series
\* exactly one resistance Level, at the maximum bar.
C6_EveryVHasOneSupport ==
    (pc = "detected" /\ sensitivity = DefaultSensitivity) =>
      \A m \in 0..(Len(df) - 1) :
        /\ IsV(Lows(df), Len(df), m) =>
             (Cardinality(Supports) = 1 /\ \A n \in Supports : levels[n].index = m)
        /\ IsLambda(Highs(df), Len(df), m) =>
             (Cardinality(Resistances) = 1 /\ \A n \in Resistances : levels[n].index = m)

\* C6 amended: the same, for the V (Lambda) whose minimum (maximum) bar has at
\* least 3 bars on each side; a V (Lambda) whose extremum lies in the first or
\* last 3 bars gets no support (resistance) Level at all.
C6_InteriorVHasOneSupport ==
    (pc = "detected" /\ sensitivity = DefaultSensitivity) =>
      \A m \in 0..(Len(df) - 1) :
        LET inside == 3 <= m /\ m < Len(df) - 3
        IN /\ IsV(Lows(df), Len(df), m) =>
                IF inside
                THEN Cardinality(Supports) = 1 /\ \A n \in Supports : levels[n].index = m
                ELSE Supports = {}
           /\ IsLambda(Highs(df), Len(df), m) =>
                IF inside
                THEN Cardinality(Resistances) = 1 /\ \A n \in Resistances : levels[n].index = m
                ELSE Resistances = {}

\* a V with more than 3 bars before the minimum, detected with sensitivity 3
C6_Witness ==
    /\ pc = "detected"
    /\ sensitivity = DefaultSensitivity
    /\ \E m \in 4..(Len(df) - 4) : IsV(Lows(df), Len(df), m)
    /\ Cardinality(Supports) = 1

(* ---- claims about the backtest ---- *)

\* position of the row with timestamp ts
PosOf(ts) == CHOOSE k \in 0..(Len(df) - 1) : At(df, k).t = ts

\* C1: for every bar of the cleaned sequence, the first one included, a BUY
\* label met while FLAT makes the simulator record that bar's Close and
\* timestamp as the entry and be IN_TRADE after the bar.  The simulator is
\* past bar i-1 and met it in the state flat_at_bar.
C1_BuyWhileFlatEnters ==
    (pc \in {"walk", "backtested"} /\ 1 <= i /\ i <= Len(df)
       /\ At(df, i - 1).Signal = "BUY" /\ flat_at_bar)
    => (in_trade /\ entry_price = At(df, i - 1).Close /\ entry_time = At(df, i - 1).t)

\* C2: every Trade pairs a BUY bar e with the first SELL bar x after it, has
\* Entry = Close[e], Exit = Close[x] and PnL = Close[x] - Close[e], and starts
\* strictly after the exit bar of the Trade before it.
C2_TradesPairBuyWithNextSell ==
    pc \in {"walk", "backtested"} =>
      /\ Len(exit_bars) = Len(trades)
      /\ \A n \in 1..Len(trades) :
           /\ \E k \in 0..(Len(df) - 1) : At(df, k).t = trades[n].EntryTime
           /\ LET e == PosOf(trades[n].EntryTime)
                  x == exit_bars[n]
              IN /\ At(df, e).Signal = "BUY"
                 /\ x \in 0..(Len(df) - 1)
                 /\ At(df, x).Signal = "SELL"
                 /\ x > e
                 /\ \A j \in (e + 1)..(x - 1) : At(df, j).Signal # "SELL"
                 /\ trades[n].Entry = At(df, e).Close
                 /\ trades[n].Exit = At(df, x).Close
                 /\ trades[n].PnL = At(df, x).Close - At(df, e).Close
                 /\ n > 1 => e > exit_bars[n - 1]

\* the walk is over with two trades, a winning one closed only at the second
\* bar after its entry and then a losing one
C2_Witness ==
    /\ pc = "backtested"
    /\ Len(trades) = 2
    /\ exit_bars[1] > PosOf(trades[1].EntryTime) + 1
    /\ trades[1].PnL > 0
    /\ trades[2].PnL < 0

\* C3: a BUY processed while IN_TRADE leaves entry_price, entry_time, the
\* state and the trade list as they were; a SELL processed while FLAT leaves
\* the state FLAT and the trade list as it was; a bar without a label changes
\* none of them.
C3_IgnoredSignalsChangeNothing ==
    [][(pc = "walk" /\ i < Len(df) /\ i' = i + 1) =>
         /\ (At(df, i).Signal = "BUY" /\ in_trade) =>
              (in_trade' /\ UNCHANGED <<entry_price, entry_time, trades>>)
         /\ (At(df, i).Signal = "SELL" /\ ~in_trade) =>
              (~in_trade' /\ UNCHANGED trades)
         /\ (At(df, i).Signal = "") =>
              UNCHANGED <<in_trade, entry_price, entry_time, trades>>]_vars

\* a BUY was just passed while a position from an earlier bar stays open, and
\* before that entry a SELL and an unlabelled bar went by
C3_Witness ==
    /\ pc = "walk"
    /\ i >= 4
    /\ At(df, i - 1).Signal = "BUY"
    /\ in_trade
    /\ entry_time = At(df, i - 2).t
    /\ trades = <<>>
    /\ \E a, b \in 1..(i - 3) : At(df, a).Signal = "SELL" /\ At(df, b).Signal = ""

BuyCount == Cardinality({k \in 0..(Len(df) - 1) : At(df, k).Signal = "BUY"})

\* C4: there are never more Trades than BUY labels in the sequence, and a
\* position still open when the walk ends has no Trade: no record of the
\* list carries its entry time.
C4_OpenPositionIsNotATrade ==
    pc \in {"walk", "backtested"} =>
      /\ Len(trades) <= BuyCount
      /\ (pc = "backtested" /\ in_trade) =>
           /\ \A n \in 1..Len(trades) : trades[n].EntryTime # entry_time
           /\ summary.wins + summary.losses = Len(trades)
           /\ Len(trades) < BuyCount

\* the walk ended with a position open after one completed trade
C4_Witness ==
    /\ pc = "backtested"
    /\ in_trade
    /\ Len(trades) = 1
    /\ summary.text = "Backtest Results"

(* ---- claims about the classifiers ---- *)

\* C7: in every script and for every bar the BUY and the SELL condition are
\* never both true; the bar's label is one of BUY, SELL, none and is the same
\* whichever of the two assignments comes first; it is BUY only if the whole
\* BUY conjunction of the script holds, SELL only if the whole SELL
\* conjunction holds, and none if neither holds.
C7_OneLabelPerBar ==
    pc = "classified" =>
      \A k \in 1..Len(df) :
        LET r == df[k]
            buy  == IF script = "base"
                    THEN r.RSI < 30 /\ r.MACD > r.MACD_Signal /\ r.EMA9 > r.EMA21
                    ELSE r.MACD > r.MACD_Signal /\ r.EMA9 > r.EMA21 /\ r.Close > r.VWAP
                         /\ r.Volume_Spike /\ near_support
            sell == IF script = "base"
                    THEN r.RSI > 70 /\ r.MACD < r.MACD_Signal /\ r.EMA9 < r.EMA21
                    ELSE r.MACD < r.MACD_Signal /\ r.EMA9 < r.EMA21 /\ r.Close < r.VWAP
                         /\ r.Volume_Spike /\ near_resistance
        IN /\ ~(buy /\ sell)
           /\ r.Signal \in {"BUY", "SELL", ""}
           /\ r.Signal = "BUY" => buy
           /\ r.Signal = "SELL" => sell
           /\ (~buy /\ ~sell) => r.Signal = ""
           /\ r.Signal = (IF sell THEN "SELL" ELSE IF buy THEN "BUY" ELSE "")
           /\ r.Signal = (IF buy THEN "BUY" ELSE IF sell THEN "SELL" ELSE "")

\* a classified frame holding a BUY bar, a SELL bar (extended rule) or a BUY
\* bar next to an unlabelled one (base rule)
C7_Witness ==
    /\ pc = "classified"
    /\ Len(df) = 2
    /\ \/ script \in Extended /\ df[1].Signal = "SELL" /\ df[2].Signal = "BUY"
       \/ script = "base" /\ df[1].Signal = "BUY" /\ df[2].Signal = ""

\* C10: in both extended scripts near_support (near_resistance) is the one
\* boolean "some support (resistance) Level price lvl has |p - lvl| / p < 0.01"
\* for the Close p of the last cleaned bar, that boolean gates the label of
\* every bar, and the Signal column is the one the other script computes from
\* the same frame and Levels.
C10_ExtendedScriptsAgree ==
    (pc = "classified" /\ script \in Extended) =>
      LET p  == df[Len(df)].Close
          ns == \E n \in 1..Len(levels) :
                   levels[n].kind = "support" /\ Abs(p - levels[n].price) * 100 < p
          nr == \E n \in 1..Len(levels) :
                   levels[n].kind = "resistance" /\ Abs(p - levels[n].price) * 100 < p
          other == IF script = "custom" THEN signals_srnews(blank_signal(df), ns, nr)
                   ELSE signals_custom(blank_signal(df), ns, nr)
      IN /\ near_support = ns
         /\ near_resistance = nr
         /\ \A k \in 1..Len(df) :
              /\ df[k].Signal = "BUY" => ns
              /\ df[k].Signal = "SELL" => nr
              /\ df[k].Signal = other[k].Signal

\* an earlier bar is labelled SELL although only the last bar's Close is
\* near the resistance, and a second Level is out of the band
C10_Witness ==
    /\ pc = "classified"
    /\ script \in Extended
    /\ Len(df) = 2
    /\ Len(levels) = 2
    /\ df[1].Signal = "SELL"
    /\ df[1].Close # df[2].Close
    /\ near_resistance
    /\ ~near_support

(* ---- claims about the whole scripts ---- *)

AfterDropNa == {"cleaned", "near", "classified", "walk", "backtested", "displayed", "IndexError"}

\* C8: when no bar is left after dropna the script ends with a report and
\* never reads the last element of the empty frame, so it never raises the
\* IndexError of that read.
C8_EmptySeriesIsReported ==
    (pc \in AfterDropNa /\ Len(df) = 0) => pc # "IndexError"

\* C9: every Level is located at a bar that is still in the cleaned frame,
\* and so are the bars its Low / High was compared with.
C9_LevelsOnlyAtCleanedBars ==
    (pc \in AfterDropNa /\ script \in Extended) =>
      \A n \in 1..Len(levels) :
        \A ts \in (levels[n].index - DefaultSensitivity)..(levels[n].index + DefaultSensitivity) :
          \E k \in 1..Len(df) : df[k].t = ts

====
